---------------------------- MODULE Spec2Model ----------------------------
(***************************************************************************)
(* A model of src/lambda_function.py: the news summarizer's request        *)
(* pipeline (validate -> cache read -> extract -> summarize -> cache       *)
(* write), its DynamoDB cache with the 24 hour freshness window and the    *)
(* 7 day TTL attribute, and the fallback extractive summarizer.            *)
(*                                                                         *)
(* Python values are modelled as follows.                                  *)
(*   None / a value     <<>> / <<v>>  (an optional value)                  *)
(*   str                a sequence of one-character strings (URLs), or a   *)
(*                      sequence of words (article text, summaries)        *)
(*   datetime           an integer number of clock ticks                   *)
(*   dict               a record                                           *)
(***************************************************************************)
EXTENDS Integers, Sequences, FiniteSets, TLC

\* ------------------------------------------------------------------ bounds

\* Clock resolution: ticks per second (datetime has microseconds; the model
\* needs only that a second has a fractional part).
TicksPerSecond == 2
\* The largest sub-second offset, in ticks, a clock reading of the model has.
MaxFine == 1
\* The largest number of ticks that pass between the two datetime.now()
\* calls of cache_summary.
MaxSkew == 1

\* The largest number of sentences of a text given to the fallback summarizer
\* on its own.
MaxSentences == 5

\* -------------------------------------------------------- program constants

FRESH_HOURS == 24
TTL_DAYS == 7
MIN_WORDS == 50
MAX_CHARS == 5000
MIN_SENTENCE_WORDS == 5
NUM_SENTENCES == 3

\* The names bound at module level by the import statements.
ModuleImports ==
    {"json", "boto3", "requests", "datetime", "timedelta", "hashlib", "re",
     "BeautifulSoup", "logging"}

\* -------------------------------------------------------------------- time

Second == TicksPerSecond
Hour == 3600 * Second
Day == 24 * Hour

\* Mutants: timedelta called with the wrong unit.
timedelta_hours_as_days(h) == h * Day
timedelta_days_as_hours(d) == d * Hour

\* timedelta(hours = h), timedelta(days = d), in ticks.
timedelta_hours(h) == h * Hour
timedelta_days(d) == d * Day

\* datetime.isoformat(): the text of a datetime, whole seconds and fraction.
isoformat(t) == [sec |-> t \div TicksPerSecond, frac |-> t % TicksPerSecond]
\* datetime.fromisoformat(): the datetime a text denotes.
fromisoformat(s) == s.sec * TicksPerSecond + s.frac
\* int(datetime.timestamp()): whole seconds, the fraction dropped.
int_timestamp(t) == t \div TicksPerSecond

\* The clock readings of the model: a few hours of interest, each with its
\* sub-second offsets.
ClockHours == {0, 24, 168}
Times == {h * Hour + f : h \in ClockHours, f \in 0 .. MaxFine}

\* ----------------------------------------------------------- optional values

None == <<>>
Some(v) == <<v>>
IsNone(o) == o = <<>>
Val(o) == o[1]

\* -------------------------------------------------------------------- URLs

Letters ==
    {"a", "b", "c", "d", "e", "f", "g", "h", "i", "j", "k", "l", "m", "n", "o",
     "p", "q", "r", "s", "t", "u", "v", "w", "x", "y", "z",
     "A", "B", "C", "D", "E", "F", "G", "H", "I", "J", "K", "L", "M", "N", "O",
     "P", "Q", "R", "S", "T", "U", "V", "W", "X", "Y", "Z"}
Digits == {"0", "1", "2", "3", "4", "5", "6", "7", "8", "9"}
Whitespace == {" "}

\* [A-Z09] under re.IGNORECASE: a letter, "0" or "9" (the class has no "-"
\* between 0 and 9, so the digits 1..8 are not in it).
LabelChar == Letters \cup {"0", "9"}
\* [A-Z09-]
LabelMidChar == LabelChar \cup {"-"}

\* Whether lit occurs in s at position p (letters in lit are lower case and
\* match either case).
Lower(c) ==
    CASE c = "H" -> "h" [] c = "T" -> "t" [] c = "P" -> "p" [] c = "S" -> "s"
      [] c = "L" -> "l" [] c = "O" -> "o" [] c = "C" -> "c" [] c = "A" -> "a"
      [] OTHER -> c
LitAt(s, p, lit) ==
    /\ p + Len(lit) - 1 <= Len(s)
    /\ \A i \in 1 .. Len(lit) : Lower(s[p + i - 1]) = lit[i]

\* ^https?:// : the positions right after the scheme.
SchemeEnds(s) ==
    {q \in {8, 9} :
        \/ q = 8 /\ LitAt(s, 1, <<"h", "t", "t", "p", ":", "/", "/">>)
        \/ q = 9 /\ LitAt(s, 1, <<"h", "t", "t", "p", "s", ":", "/", "/">>)}

\* [A-Z09](?:[A-Z09-]{0,61}[A-Z09])?\. at p: the positions after the dot.
LabelEnds(s, p) ==
    {q \in (p + 2) .. (Len(s) + 1) :
        /\ s[q - 1] = "."
        /\ (q - 1 - p) \in 1 .. 63
        /\ s[p] \in LabelChar
        /\ s[q - 2] \in LabelChar
        /\ \A i \in (p + 1) .. (q - 3) : s[i] \in LabelMidChar}

\* (?: label )+ from any position of P: the positions after one or more labels.
RECURSIVE LabelsEnds(_, _, _)
LabelsEnds(s, P, fuel) ==
    LET next == UNION {LabelEnds(s, p) : p \in P}
    IN  IF fuel = 0 \/ next = {} THEN {}
        ELSE next \cup LabelsEnds(s, next, fuel - 1)

\* [A-Z]{2,6}\.? at p.
TldEnds(s, p) ==
    LET ends == {q \in (p + 2) .. (p + 6) :
                    /\ q - 1 <= Len(s)
                    /\ \A i \in p .. (q - 1) : s[i] \in Letters}
    IN  ends \cup {q + 1 : q \in {e \in ends : e <= Len(s) /\ s[e] = "."}}

DomainEnds(s, p) ==
    UNION {TldEnds(s, r) : r \in LabelsEnds(s, {p}, Len(s))}

LocalhostEnds(s, p) ==
    IF LitAt(s, p, <<"l", "o", "c", "a", "l", "h", "o", "s", "t">>)
    THEN {p + 9} ELSE {}

\* \d{1,3} at p.
OctetEnds(s, p) ==
    {q \in (p + 1) .. (p + 3) :
        q - 1 <= Len(s) /\ \A i \in p .. (q - 1) : s[i] \in Digits}
\* \. at every position of P.
DotEnds(s, P) == {p + 1 : p \in {x \in P : x <= Len(s) /\ s[x] = "."}}
\* \d{1,3}\.\d{1,3}\.\d{1,3}\.\d{1,3} at p.
IpEnds(s, p) ==
    LET o1 == OctetEnds(s, p)
        o2 == UNION {OctetEnds(s, x) : x \in DotEnds(s, o1)}
        o3 == UNION {OctetEnds(s, x) : x \in DotEnds(s, o2)}
    IN  UNION {OctetEnds(s, x) : x \in DotEnds(s, o3)}

HostEnds(s, p) == DomainEnds(s, p) \cup LocalhostEnds(s, p) \cup IpEnds(s, p)

\* (?::\d+)? at p.
PortEnds(s, p) ==
    {p} \cup {q \in (p + 2) .. (Len(s) + 1) :
                /\ s[p] = ":"
                /\ \A i \in (p + 1) .. (q - 1) : s[i] \in Digits}

\* (?:/?|[/?]\S+) at p.
TailEnds(s, p) ==
    {p}
    \cup {q \in {p + 1} : p <= Len(s) /\ s[p] = "/"}
    \cup {q \in (p + 2) .. (Len(s) + 1) :
            /\ s[p] \in {"/", "?"}
            /\ \A i \in (p + 1) .. (q - 1) : s[i] \notin Whitespace}

\* url_pattern.match(url): where a match of the whole pattern can end.  The
\* pattern is anchored at the start only.
MatchEnds(s) ==
    UNION {TailEnds(s, t) :
            t \in UNION {PortEnds(s, h) :
                    h \in UNION {HostEnds(s, p) : p \in SchemeEnds(s)}}}

is_valid_url(url) == MatchEnds(url) # {}


\* Sample URL texts.
Http == <<"h", "t", "t", "p", ":", "/", "/">>
\* "http://a.co"
URL_A == Http \o <<"a", ".", "c", "o">>
\* "http://b.co/n?q=1"
URL_B == Http \o <<"b", ".", "c", "o", "/", "n", "?", "q", "=", "1">>
\* "a.co": no scheme
URL_NOSCHEME == <<"a", ".", "c", "o">>
\* "ftp://a.co": a scheme other than http and https
URL_FTP == <<"f", "t", "p", ":", "/", "/", "a", ".", "c", "o">>

\* hashlib.md5(url.encode()).hexdigest() of the sample URLs.
generate_cache_key(url) ==
    CASE url = URL_A -> "b1a36ca5e89be189f98b9cfe5f98bf74"
      [] url = URL_B -> "25c45f383f1d8a2d667b209f394579d6"
      [] url = URL_NOSCHEME -> "198463259d0f6e3a6eab51d41e74468f"
      [] url = URL_FTP -> "d79d8d2f2a6d2a8dea7d42308e90931a"
      [] url = <<>> -> "d41d8cd98f00b204e9800998ecf8427e"

\* The keys of the cache table the model's requests can address.
CacheKeys == {generate_cache_key(u) : u \in {URL_A, URL_B}}

\* -------------------------------------------------------------------- text

\* A text is a sequence of tokens separated by single spaces, kept as a
\* sequence of runs: a run [w, n, end, k] stands for k equal tokens, each with
\* the name w, n characters, and end saying whether the token ends in one of
\* ". ! ?".  Adjacent runs hold different tokens, so equal strings are equal
\* values.  A token of no characters stands for the empty string between two
\* spaces or at an end of the text: "a " is the token a, then EmptyToken.
Run(w, n, end, k) == [w |-> w, n |-> n, end |-> end, k |-> k]
EmptyToken == Run("", 0, FALSE, 1)
Word(id, n) == Run(id, n, FALSE, 1)
EndWord(id, n) == Run(id, n, TRUE, 1)
SameToken(a, b) == a.w = b.w /\ a.n = b.n /\ a.end = b.end

\* The concatenation of two texts with a space between them.
Concat(a, b) ==
    IF a = <<>> THEN b
    ELSE IF b = <<>> THEN a
    ELSE IF SameToken(a[Len(a)], b[1])
    THEN SubSeq(a, 1, Len(a) - 1)
            \o <<[b[1] EXCEPT !.k = a[Len(a)].k + b[1].k]>> \o Tail(b)
    ELSE a \o b

\* k words of n characters without terminal punctuation.
Words(id, k, n) == IF k = 0 THEN <<>> ELSE <<Run(id, n, FALSE, k)>>
\* A sentence of k words, the last one ending in a full stop.
Sentence(id, k) == Concat(Words(id, k - 1, 4), <<EndWord(id, 5)>>)

\* str.strip() of a text whose inner whitespace is single spaces, and
\* re.sub(r'\s+', ' ', text).strip(): the empty tokens go.
RECURSIVE strip(_)
strip(text) ==
    IF text = <<>> THEN <<>>
    ELSE IF Head(text).n = 0 THEN strip(Tail(text))
    ELSE Concat(<<Head(text)>>, strip(Tail(text)))

\* len(text.split()): the number of words of a text.
RECURSIVE word_count(_)
word_count(text) ==
    IF text = <<>> THEN 0
    ELSE (IF Head(text).n > 0 THEN Head(text).k ELSE 0) + word_count(Tail(text))

\* The number of tokens of a text.
RECURSIVE Tokens(_)
Tokens(text) == IF text = <<>> THEN 0 ELSE Head(text).k + Tokens(Tail(text))

\* len(text): characters, the separating spaces included.
RECURSIVE Chars(_)
Chars(text) ==
    IF text = <<>> THEN 0 ELSE Head(text).k * Head(text).n + Chars(Tail(text))
CharLen(text) == IF text = <<>> THEN 0 ELSE Chars(text) + Tokens(text) - 1

\* The first m characters of a token.
Cut(t, m) == IF m = 0 THEN EmptyToken ELSE Run(t.w, m, FALSE, 1)

\* The first m characters of a text that follows a space.
RECURSIVE SliceRest(_, _)
SliceRest(text, m) ==
    IF text = <<>> THEN <<>>
    ELSE LET h == Head(text)
             whole == h.k * h.n + h.k - 1
             \* the whole tokens of the run that fit, and what is left
             j == (m + 1) \div (h.n + 1)
             r == m - (j * (h.n + 1) - 1)
         IN  IF m >= whole
             THEN IF Tail(text) = <<>> \/ m = whole THEN <<h>>
                  ELSE Concat(<<h>>, SliceRest(Tail(text), m - whole - 1))
             ELSE IF j = 0 THEN <<Cut(h, m)>>
             ELSE IF r = 0 THEN <<[h EXCEPT !.k = j]>>
             ELSE Concat(<<[h EXCEPT !.k = j]>>, <<Cut(h, r - 1)>>)
\* text[:m]
Slice(text, m) == IF m <= 0 THEN <<>> ELSE SliceRest(text, m)

\* ' '.join(parts)
RECURSIVE join(_)
join(parts) ==
    IF parts = <<>> THEN <<>> ELSE Concat(Head(parts), join(Tail(parts)))

\* Python truthiness of a str: the empty string is false.
IsEmptyStr(text) == CharLen(text) = 0

\* A text with each token of a run that ends a sentence in a run of its own.
RECURSIVE Unroll(_)
Unroll(text) ==
    IF text = <<>> THEN <<>>
    ELSE LET h == Head(text)
         IN  IF h.end /\ h.k > 1
             THEN <<[h EXCEPT !.k = 1]>>
                    \o Unroll(<<[h EXCEPT !.k = h.k - 1]>> \o Tail(text))
             ELSE <<h>> \o Unroll(Tail(text))

\* re.split(r'(?<=[.!?])\s+', text): the text is cut at each space that
\* follows a token ending in terminal punctuation.
RECURSIVE SplitAt(_, _)
SplitAt(text, cur) ==
    IF text = <<>> THEN <<cur>>
    ELSE LET h == Head(text)
         IN  IF h.end /\ Tail(text) # <<>>
             THEN <<Concat(cur, <<h>>)>> \o SplitAt(Tail(text), <<>>)
             ELSE SplitAt(Tail(text), Concat(cur, <<h>>))
SplitSentences(text) == SplitAt(Unroll(text), <<>>)

\* sentences.index(s): the position (from 0) of the first sentence equal to s.
index(sentences, s) ==
    CHOOSE i \in 0 .. (Len(sentences) - 1) :
        /\ sentences[i + 1] = s
        /\ \A j \in 0 .. (i - 1) : sentences[j + 1] # s

\* -------------------------------------------------------------- float (double)

\* A positive double is kept as its 53 significant bits m (most significant
\* first, m[1] = 1) and the exponent e of the value 0.m * 2^e; 0.0 has no
\* bits.  err records how the operation that made it was rounded: the exact
\* result is "exact"ly the double, or the double is "above" or "below" it.
Float(m, e, err) == [m |-> m, e |-> e, err |-> err]
FloatZero == Float(<<>>, 0, "exact")

\* k zero bits.
Zeros(k) == IF k <= 0 THEN <<>> ELSE [i \in 1 .. k |-> 0]

\* The bits of a natural number, most significant first.
RECURSIVE IntBits(_)
IntBits(k) == IF k = 0 THEN <<>> ELSE IntBits(k \div 2) \o <<k % 2>>

\* The first count bits after the binary point of r / b, for r < b, and what
\* is left of r after them.
RECURSIVE DivBits(_, _, _)
DivBits(r, b, count) ==
    IF count = 0 THEN <<>>
    ELSE <<(2 * r) \div b>> \o DivBits((2 * r) % b, b, count - 1)
RECURSIVE DivRem(_, _, _)
DivRem(r, b, count) ==
    IF count = 0 \/ r = 0 THEN r ELSE DivRem((2 * r) % b, b, count - 1)
\* The number of zeros after the binary point of r / b before its first one,
\* for 0 < r < b.
RECURSIVE LeadingZeros(_, _)
LeadingZeros(r, b) == IF 2 * r >= b THEN 0 ELSE 1 + LeadingZeros(2 * r, b)

\* bits + 1, one bit longer when every bit is one.
RECURSIVE Inc(_)
Inc(bits) ==
    IF bits = <<>> THEN <<1>>
    ELSE IF bits[Len(bits)] = 0 THEN SubSeq(bits, 1, Len(bits) - 1) \o <<1>>
    ELSE Inc(SubSeq(bits, 1, Len(bits) - 1)) \o <<0>>

\* bits without its leading zeros.
RECURSIVE Normal(_)
Normal(bits) ==
    IF bits = <<>> \/ bits[1] = 1 THEN bits ELSE Normal(Tail(bits))

\* Rounding to nearest, ties to even, of the exact value 0.bits * 2^e (plus
\* something below the last bit when sticky), bits[1] = 1.
Round53(bits, sticky, e) ==
    LET n == Len(bits)
        padded == bits \o Zeros(53 - n)
        keep == SubSeq(padded, 1, 53)
        guard == n >= 54 /\ bits[54] = 1
        rest == sticky \/ \E i \in 55 .. n : bits[i] = 1
        up == guard /\ (rest \/ keep[53] = 1)
        more == Inc(keep)
    IN  IF up
        THEN IF Len(more) = 54 THEN Float(SubSeq(more, 1, 53), e + 1, "above")
             ELSE Float(more, e, "above")
        ELSE Float(keep, e, IF guard \/ rest THEN "below" ELSE "exact")

\* a / b on ints (true division), a >= 0, b > 0.
fdiv(a, b) ==
    LET whole == IntBits(a \div b)
        r == a % b
        z == LeadingZeros(r, b)
    IN  IF a = 0 THEN FloatZero
        ELSE IF whole # <<>>
        THEN Round53(whole \o DivBits(r, b, 55), DivRem(r, b, 55) # 0, Len(whole))
        ELSE Round53(DivBits(DivRem(r, b, z), b, 55), DivRem(r, b, z + 55) # 0, 0 - z)

\* 1 - x for a double 0 <= x < 1.
fsub_from_one(x) ==
    LET frac == Zeros(0 - x.e) \o x.m
        diff == Inc([i \in 1 .. Len(frac) |-> 1 - frac[i]])
        bits == Normal(diff)
    IN  IF x.m = <<>> THEN Float(<<1>> \o Zeros(52), 1, "exact")
        ELSE Round53(bits, FALSE, 0 - (Len(diff) - Len(bits)))

\* bits * k + carry, for a natural number k.
RECURSIVE MulBits(_, _, _)
MulBits(bits, k, carry) ==
    IF bits = <<>> THEN IntBits(carry)
    ELSE LET v == k * bits[Len(bits)] + carry
         IN  IF v = 0 THEN MulBits(SubSeq(bits, 1, Len(bits) - 1), k, 0) \o <<0>>
             ELSE MulBits(SubSeq(bits, 1, Len(bits) - 1), k, v \div 2) \o <<v % 2>>

\* k * y for an int k >= 1 and a double y > 0.
fmul_int(k, y) ==
    LET product == MulBits(y.m, k, 0)
    IN  Round53(product, FALSE, y.e + Len(product) - 53)

\* The natural number with the given bits.
RECURSIVE BitsToInt(_)
BitsToInt(bits) ==
    IF bits = <<>> THEN 0
    ELSE 2 * BitsToInt(SubSeq(bits, 1, Len(bits) - 1)) + bits[Len(bits)]

\* round(x, 2) of a double x >= 0, in hundredths: the integer nearest to the
\* exact value of 100 * x, the even one of two equally near.
round_hundredths(x) ==
    LET product == MulBits(x.m, 100, 0)
        \* 100 * x = 0.product * 2^k
        k == x.e + Len(product) - 53
        whole == BitsToInt(SubSeq(product, 1, k))
        guard == k + 1 <= Len(product) /\ product[k + 1] = 1
        rest == \E i \in (k + 2) .. Len(product) : product[i] = 1
    IN  IF x.m = <<>> \/ k < 0 THEN 0
        ELSE IF guard /\ (rest \/ whole % 2 = 1) THEN whole + 1
        ELSE whole

\* x < y on positive doubles.
fless(x, y) ==
    \/ x.e < y.e
    \/ /\ x.e = y.e
       /\ \E i \in 1 .. 53 :
            /\ x.m[i] < y.m[i]
            /\ \A j \in 1 .. (i - 1) : x.m[j] = y.m[j]

\* len(sentence.split()) * (1 - (i / len(sentences))): a double, each of the
\* three operations rounded.
score(sentences, i) ==
    fmul_int(word_count(sentences[i + 1]),
             fsub_from_one(fdiv(i, Len(sentences))))

\* list.sort(key) on records carrying their key: a stable sort by insertion,
\* an element going after the elements whose key is not greater.
RECURSIVE InsertByKey(_, _)
InsertByKey(x, sorted) ==
    IF sorted = <<>> THEN <<x>>
    ELSE IF x.key < Head(sorted).key THEN <<x>> \o sorted
    ELSE <<Head(sorted)>> \o InsertByKey(x, Tail(sorted))
RECURSIVE sort_by_key(_)
sort_by_key(xs) ==
    IF xs = <<>> THEN <<>>
    ELSE InsertByKey(xs[Len(xs)], sort_by_key(SubSeq(xs, 1, Len(xs) - 1)))

\* Mutant: the short sentences are not filtered out.
simple_extractive_summary_unfiltered(text, num_sentences) ==
    LET pieces == SplitSentences(text)
        sentences == [i \in 1 .. Len(pieces) |-> strip(pieces[i])]
    IN  join(SubSeq(sentences, 1, num_sentences))

\* simple_extractive_summary(text, num_sentences)
simple_extractive_summary(text, num_sentences) ==
    LET pieces == SplitSentences(text)
        kept == SelectSeq(pieces,
                    LAMBDA s : word_count(s) > MIN_SENTENCE_WORDS)
        sentences == [i \in 1 .. Len(kept) |-> strip(kept[i])]
        \* the scores, as a sequence worked out once
        scores == [i \in 1 .. Len(sentences) |-> score(sentences, i - 1)] \o <<>>
        \* sorted(..., key = score, reverse = True) keeps equal scores in
        \* their original order: a stable sort by the number of sentences
        \* with a greater score.
        scored == [i \in 1 .. Len(sentences) |->
                     [key |-> Cardinality({j \in 1 .. Len(sentences) :
                                            fless(scores[i], scores[j])}),
                      s |-> sentences[i]]]
        top == SubSeq(sort_by_key(scored), 1, num_sentences)
        keyed == [i \in 1 .. Len(top) |->
                     [key |-> index(sentences, top[i].s), s |-> top[i].s]]
        inOrder == sort_by_key(keyed)
    IN  IF Len(sentences) <= num_sentences
        THEN join(sentences)
        ELSE join([i \in 1 .. Len(inOrder) |-> inOrder[i].s])

\* ------------------------------------------------- the summarization service

\* What requests.post gives: an exception (timeout, transport error) or a
\* response with a status code and a body.  A body is malformed JSON, a list
\* of values or an object; a summary_text field is present or not.
RemoteSummary == Concat(Words("remote", 7, 6), <<EndWord("remote", 8)>>)
ReplyList(summary) ==
    [kind |-> "http", status |-> 200, json |-> "list",
     items |-> <<[isdict |-> TRUE, summary_text |-> summary]>>]
ReplyRaises == [kind |-> "raise", status |-> 0, json |-> "none", items |-> <<>>]
RemoteReplies ==
    { ReplyList(Some(RemoteSummary)),
      ReplyList(Some(<<>>)),
      ReplyList(None),
      [kind |-> "http", status |-> 200, json |-> "list", items |-> <<>>],
      [kind |-> "http", status |-> 200, json |-> "list",
       items |-> <<[isdict |-> FALSE, summary_text |-> None]>>],
      [kind |-> "http", status |-> 200, json |-> "dict",
       items |-> <<[isdict |-> TRUE, summary_text |-> Some(RemoteSummary)]>>],
      [kind |-> "http", status |-> 200, json |-> "malformed", items |-> <<>>],
      [kind |-> "http", status |-> 503, json |-> "dict", items |-> <<>>],
      ReplyRaises }

\* The replies the pipeline of the model meets.
PipelineReplies ==
    { ReplyList(Some(RemoteSummary)),
      [kind |-> "http", status |-> 503, json |-> "dict", items |-> <<>>],
      ReplyRaises }

\* The body of summarize_text's try block from requests.post on: the value
\* returned, or the fallback when the except clause or the last line runs.
summarize_remote(text, reply) ==
    LET fallback == simple_extractive_summary(text, NUM_SENTENCES)
    IN  IF reply.kind = "raise" THEN fallback
        ELSE IF reply.status = 200
        THEN IF reply.json = "malformed" THEN fallback
             ELSE IF reply.json = "list" /\ Len(reply.items) > 0
             THEN IF ~reply.items[1].isdict THEN fallback
                  ELSE IF IsNone(reply.items[1].summary_text) THEN <<>>
                  ELSE Val(reply.items[1].summary_text)
             ELSE fallback
        ELSE fallback

\* summarize_text(text): the first statement of the try block reads
\* os.environ, and the module does not import os, so a NameError is raised
\* there and the except clause returns the fallback summary.
summarize_text(text, reply) ==
    IF "os" \notin ModuleImports
    THEN simple_extractive_summary(text, NUM_SENTENCES)
    ELSE summarize_remote(text, reply)

\* ------------------------------------------------------------------- pages

\* What requests.get gives for a URL: an exception (timeout, connection
\* error) or a response with a status code and an HTML document.  Of the
\* document the model keeps its <title> text, the text of its first <h1>, the
\* texts of the elements each content selector matches once the non-content
\* tags are removed, and the texts of its <p> elements.
content_selectors == <<"article", ".article-body", ".story-content", "main", "#content">>

NoMatches == [sel \in {content_selectors[i] : i \in 1 .. 5} |-> <<>>]
Html(title, selected, paragraphs) ==
    [kind |-> "http", status |-> 200, title |-> title, h1 |-> None,
     selected |-> selected, p |-> paragraphs]

\* Article texts.
\* 50 words in five sentences of 12, 8, 10, 6 and 14 words.
TEXT_GOOD ==
    join(<<Sentence("s1", 12), Sentence("s2", 8), Sentence("s3", 10),
           Sentence("s4", 6), Sentence("s5", 14)>>)
\* 49 words.
TEXT_SHORT == Concat(Sentence("t1", 20), Sentence("t2", 29))
\* 50 words in ten sentences of 5 words.
TEXT_BRIEF == join([i \in 1 .. 10 |-> Sentence("b", 5)])
\* 50 words of 120 characters: 6049 characters, 42 words in the first 5000.
TEXT_WIDE == Concat(Words("w1", 49, 120), <<EndWord("w1", 120)>>)
\* 50 words with a doubled space after the tenth and a space at each end.
TEXT_SPACED ==
    <<EmptyToken>> \o Words("g1", 10, 4) \o <<EmptyToken>>
        \o Words("g2", 39, 4) \o <<EndWord("g2", 5), EmptyToken>>
\* 60 words of 100 characters in two sentences: 6059 characters.
TEXT_LONG ==
    join(<<Words("l1", 29, 100), <<EndWord("l1", 100)>>, Words("l2", 29, 100),
           <<EndWord("l2", 100)>>>>)

PAGE_GOOD ==
    Html(Some("News"), [NoMatches EXCEPT !["article"] = <<TEXT_GOOD>>], <<>>)
PAGE_BRIEF == Html(None, NoMatches, <<TEXT_BRIEF>>)
PAGE_SHORT == Html(Some("Short"), [NoMatches EXCEPT !["main"] = <<TEXT_SHORT>>], <<>>)
PAGE_404 ==
    [Html(Some("Not Found"), [NoMatches EXCEPT !["article"] = <<TEXT_GOOD>>], <<>>)
        EXCEPT !.status = 404]
PAGE_UNREACHABLE ==
    [kind |-> "raise", status |-> 0, title |-> None, h1 |-> None,
     selected |-> NoMatches, p |-> <<>>]
\* A page whose 50 words take more than 5000 characters.
PAGE_WIDE == Html(Some("Wide"), NoMatches, <<TEXT_WIDE>>)
Pages ==
    {PAGE_GOOD, PAGE_BRIEF, PAGE_SHORT, PAGE_WIDE, PAGE_404, PAGE_UNREACHABLE}

\* What a fetch met, for the history: a transport failure, an HTTP error
\* status, a document with too little text, or a usable document.
RECURSIVE PartsWords(_)
PartsWords(parts) ==
    IF parts = <<>> THEN 0 ELSE word_count(Head(parts)) + PartsWords(Tail(parts))
PageKind(page) ==
    IF page.kind = "raise" THEN "fetch:network_error"
    ELSE IF page.status < 200 \/ page.status > 299 THEN "fetch:http_error"
    ELSE IF \A i \in 1 .. Len(content_selectors) :
                PartsWords(page.selected[content_selectors[i]]) < 50
            /\ PartsWords(page.p) < 50
    THEN "fetch:too_short"
    ELSE "fetch:ok"

\* Mutant: the status of the response is never looked at.
raise_for_status_ignored(page) == FALSE

\* response.raise_for_status(): raises for a 4xx or 5xx status.
raise_for_status(page) == page.status >= 400 /\ page.status < 600

\* Mutant: the loop has no break, every selector that matches contributes.
RECURSIVE select_parts_no_break(_, _)
select_parts_no_break(page, i) ==
    IF i > Len(content_selectors) THEN <<>>
    ELSE page.selected[content_selectors[i]] \o select_parts_no_break(page, i + 1)

\* The loop over content_selectors: the texts of the elements of the first
\* selector, from position i on, that matches any element.
RECURSIVE select_parts(_, _)
select_parts(page, i) ==
    IF i > Len(content_selectors) THEN <<>>
    ELSE IF page.selected[content_selectors[i]] # <<>>
    THEN page.selected[content_selectors[i]]
    ELSE select_parts(page, i + 1)

\* Mutant: the text is cut to 5000 characters before its words are counted.
extract_truncating_first(page) ==
    LET failure == [text |-> None, title |-> None]
        title == IF IsNone(page.title) THEN "Article" ELSE Val(page.title)
        selected == select_parts(page, 1)
        text_parts == IF selected = <<>> THEN page.p ELSE selected
        article_text == Slice(strip(join(text_parts)), MAX_CHARS)
    IN  IF page.kind = "raise" \/ raise_for_status(page) THEN failure
        ELSE IF word_count(article_text) < MIN_WORDS THEN failure
        ELSE [text |-> Some(article_text), title |-> Some(title)]

\* extract_article_content_and_title(url), given what requests.get returns:
\* [text, title], both None on failure.
extract_article_content_and_title(page) ==
    LET failure == [text |-> None, title |-> None]
        title == IF IsNone(page.title) THEN "Article" ELSE Val(page.title)
        selected == select_parts(page, 1)
        text_parts == IF selected = <<>> THEN page.p ELSE selected
        article_text == strip(join(text_parts))
    IN  IF page.kind = "raise" \/ raise_for_status(page) THEN failure
        ELSE IF word_count(article_text) < MIN_WORDS THEN failure
        ELSE [text |-> Some(Slice(article_text, MAX_CHARS)), title |-> Some(title)]

\* --------------------------------------------------------------- the cache

\* A well-formed item of the cache table.
Item(cache_key, summary_data, cached_at, ttl) ==
    [cache_key |-> cache_key, summary_data |-> summary_data,
     cached_at |-> cached_at, ttl |-> ttl]

\* cache_table.get_item(Key = ...): the call raises (timeout, missing
\* table), or returns a response holding the item under the key, if any.
get_item(table, cache_key, fails) ==
    IF fails THEN [raised |-> TRUE, Item |-> None]
    ELSE [raised |-> FALSE, Item |-> table[cache_key]]

\* A record the code cannot read: no cached_at or summary_data attribute, or
\* a cached_at that is not an ISO date.
BadIso == [sec |-> 0 - 1, frac |-> 0]
Malformed(item) == item.cached_at = BadIso

\* Mutant: the response is asked for a key it never has, so nothing is
\* ever found.
get_cached_summary_no_item(reply, clock) == [raised |-> FALSE, value |-> None]

\* Mutant: an item exactly 24 hours old still counts as fresh.
get_cached_summary_inclusive(reply, clock) ==
    LET miss == [raised |-> FALSE, value |-> None]
    IN  IF reply.raised THEN miss
        ELSE IF IsNone(reply.Item) THEN miss
        ELSE LET item == Val(reply.Item)
             IN  IF Malformed(item) THEN miss
                 ELSE IF clock - fromisoformat(item.cached_at)
                            <= timedelta_hours(FRESH_HOURS)
                 THEN [raised |-> FALSE, value |-> Some(item.summary_data)]
                 ELSE miss

\* Mutant: no try/except around the read, so its exception leaves the
\* function.
get_cached_summary_unguarded(reply, clock) ==
    LET miss == [raised |-> FALSE, value |-> None]
    IN  IF reply.raised THEN [raised |-> TRUE, value |-> None]
        ELSE IF IsNone(reply.Item) THEN miss
        ELSE LET item == Val(reply.Item)
             IN  IF Malformed(item) THEN [raised |-> TRUE, value |-> None]
                 ELSE IF clock - fromisoformat(item.cached_at)
                            < timedelta_hours(FRESH_HOURS)
                 THEN [raised |-> FALSE, value |-> Some(item.summary_data)]
                 ELSE miss

\* Mutant: a hit hands out the stored data with its summarized_at set to the
\* time of the read.
get_cached_summary_restamped(reply, clock) ==
    LET miss == [raised |-> FALSE, value |-> None]
    IN  IF reply.raised THEN miss
        ELSE IF IsNone(reply.Item) THEN miss
        ELSE LET item == Val(reply.Item)
             IN  IF Malformed(item) THEN miss
                 ELSE IF clock - fromisoformat(item.cached_at)
                            < timedelta_hours(FRESH_HOURS)
                 THEN [raised |-> FALSE,
                       value |-> Some([item.summary_data EXCEPT
                                          !.summarized_at = isoformat(clock + 1)])]
                 ELSE miss

\* get_cached_summary(cache_key), given what get_item does and the clock:
\* whether an exception leaves the function, and the value returned.
get_cached_summary(reply, clock) ==
    LET miss == [raised |-> FALSE, value |-> None]
    IN  IF reply.raised THEN miss
        ELSE IF IsNone(reply.Item) THEN miss
        ELSE LET item == Val(reply.Item)
             IN  IF Malformed(item) THEN miss
                 ELSE IF clock - fromisoformat(item.cached_at)
                            < timedelta_hours(FRESH_HOURS)
                 THEN [raised |-> FALSE, value |-> Some(item.summary_data)]
                 ELSE miss

\* Mutant: the item goes under a key other than its own.
put_item_misplaced(table, item) ==
    [table EXCEPT ![CHOOSE k \in DOMAIN table : k # item.cache_key] = Some(item)]

\* cache_table.put_item(Item = ...): the item replaces the one under its key.
put_item(table, item) == [table EXCEPT ![item.cache_key] = Some(item)]

\* Mutant: a conditional put that keeps an item already under the key.
cache_summary_if_absent(table, cache_key, summary_data, t1, t2, fails) ==
    LET ttl_timestamp == int_timestamp(t1 + timedelta_days(TTL_DAYS))
    IN  IF fails \/ ~IsNone(table[cache_key])
        THEN [raised |-> FALSE, table |-> table]
        ELSE [raised |-> FALSE,
              table |-> put_item(table,
                            Item(cache_key, summary_data, isoformat(t2),
                                 ttl_timestamp))]

\* cache_summary(cache_key, summary_data): t1 and t2 are the readings of the
\* two datetime.now() calls, fails says whether put_item raises.  Gives
\* whether an exception leaves the function, and the table afterwards.
cache_summary(table, cache_key, summary_data, t1, t2, fails) ==
    LET ttl_timestamp == int_timestamp(t1 + timedelta_days(TTL_DAYS))
    IN  IF fails THEN [raised |-> FALSE, table |-> table]
        ELSE [raised |-> FALSE,
              table |-> put_item(table,
                            Item(cache_key, summary_data, isoformat(t2),
                                 ttl_timestamp))]

\* --------------------------------------------------------------- responses

\* json.dumps(value): the JSON text of a value.
json_dumps(value) == [json |-> value]

success_response(data, from_cache) ==
    [statusCode |-> 200,
     body |-> json_dumps([success |-> TRUE, data |-> data,
                          from_cache |-> from_cache, error |-> ""])]
error_response(message, status_code) ==
    [statusCode |-> status_code,
     body |-> json_dumps([success |-> FALSE, data |-> None,
                          from_cache |-> FALSE, error |-> message])]
preflight_response ==
    [statusCode |-> 200,
     body |-> json_dumps([message |-> "CORS preflight success"])]

\* Mutant: the quotient is cut to two decimals, not rounded.
compression_ratio_truncated(original_word_count, summary_word_count) ==
    IF summary_word_count > 0
    THEN (100 * original_word_count) \div summary_word_count
    ELSE 0

\* round(original / summary, 2) if summary > 0 else 0, in hundredths.
compression_ratio(original_word_count, summary_word_count) ==
    IF summary_word_count > 0
    THEN round_hundredths(fdiv(original_word_count, summary_word_count))
    ELSE 0

\* The result dictionary the handler builds (lines 101-113).
make_result(url, article_title, article_text, summary, clock) ==
    [url |-> url,
     title |-> article_title,
     summary |-> summary,
     word_count |-> word_count(summary),
     original_length |-> word_count(article_text),
     compression_ratio |->
        compression_ratio(word_count(article_text), word_count(summary)),
     summarized_at |-> isoformat(clock)]

\* ---------------------------------------------------------------- requests

\* JSON values of the url field: absent (dict.get gives None), null, a string
\* or a number.
JAbsent == [t |-> "absent", s |-> <<>>, v |-> 0]
JStr(chars) == [t |-> "str", s |-> chars, v |-> 0]
JInt(v) == [t |-> "int", s |-> <<>>, v |-> v]

\* Python truthiness of a url value.
Truthy(j) ==
    CASE j.t = "absent" -> FALSE
      [] j.t = "str" -> j.s # <<>>
      [] j.t = "int" -> j.v # 0

\* The events handed to lambda_handler: a CORS preflight, an API Gateway
\* POST whose body is a JSON text (malformed, an array, or an object with or
\* without a url), or a direct invocation whose event is the body.
UrlValues ==
    {JAbsent, JStr(<<>>), JStr(URL_NOSCHEME), JInt(123), JStr(URL_A),
     JStr(URL_B)}
Post(json, url) == [httpMethod |-> "POST", json |-> json, url |-> url]
Direct(url) == [httpMethod |-> "", json |-> "object", url |-> url]
Events ==
    {[httpMethod |-> "OPTIONS", json |-> "object", url |-> JAbsent]}
    \cup {Post("malformed", JAbsent)}
    \cup {Post("object", u) : u \in UrlValues}
    \cup {Direct(JAbsent)}

\* Mutant: no catch-all, so the exception leaves lambda_handler and the
\* caller gets the runtime's report of an unhandled error.
unhandled_error ==
    [statusCode |-> 502, body |-> json_dumps([message |-> "Internal server error"])]

\* The catch-all of lambda_handler (lines 121-124).
internal_error == error_response("Internal server error", 500)

\* Lines 48-77 of lambda_handler: the response returned there, if any, or
\* the url and cache key the handler goes on with.
validate(ev) ==
    LET respond(r) == [done |-> TRUE, response |-> r, url |-> <<>>, cache_key |-> ""]
        url == ev.url
    IN  IF ev.httpMethod = "OPTIONS" THEN respond(preflight_response)
        \* json.loads raises on a malformed text; a JSON array has no get.
        ELSE IF ev.httpMethod = "POST" /\ ev.json # "object"
        THEN respond(internal_error)
        ELSE IF ~Truthy(url) THEN respond(error_response("URL is required", 400))
        \* url_pattern.match raises a TypeError on a value that is no string.
        ELSE IF url.t # "str" THEN respond(internal_error)
        ELSE IF ~is_valid_url(url.s)
        THEN respond(error_response("Invalid URL format", 400))
        ELSE [done |-> FALSE, response |-> internal_error, url |-> url.s,
              cache_key |-> generate_cache_key(url.s)]

\* ------------------------------------------------------------------- state

\* The concurrent invocations of the handler.
Procs == {"p1", "p2"}

VARIABLES
    now,        \* the clock datetime.now() reads
    store,      \* the cache table: cache key -> the item under it, if any
    pc,         \* where each invocation is
    event,      \* the event each invocation was given
    loc,        \* each invocation's local variables
    response,   \* what each invocation returned, if it has
    ops,        \* history: the outbound operations each invocation has made
    lastPut,    \* history: per key, the arguments and time of the last put_item that succeeded
    handed,     \* history: per key, the last result handed to cache_summary
    seen,       \* history: what each invocation could expect of the cache
    call        \* a single call of one function: its arguments and result

vars == <<now, store, pc, event, loc, response, ops, lastPut, handed, seen, call>>

NoLocals ==
    [url |-> <<>>, cache_key |-> "", article_text |-> None,
     article_title |-> None, result |-> None]
NoEvent == [httpMethod |-> "", json |-> "none", url |-> JAbsent]
NoCall == [fn |-> "none"]

\* No invocation has started.
Idle ==
    /\ pc = [p \in Procs |-> "idle"]
    /\ event = [p \in Procs |-> NoEvent]
    /\ loc = [p \in Procs |-> NoLocals]
    /\ response = [p \in Procs |-> None]
    /\ ops = [p \in Procs |-> {}]
    /\ lastPut = [k \in CacheKeys |-> None]
    /\ handed = [k \in CacheKeys |-> None]
    /\ seen = [p \in Procs |-> [prior |-> None, expect |-> None]]

Init ==
    /\ now = 0
    /\ store = [k \in CacheKeys |-> None]
    /\ Idle
    /\ call = NoCall

\* The invocation returns r; its local variables are gone.
Return(p, r) ==
    /\ pc' = [pc EXCEPT ![p] = "done"]
    /\ response' = [response EXCEPT ![p] = Some(r)]
    /\ loc' = [loc EXCEPT ![p] = NoLocals]

\* Time passes.
Tick ==
    /\ \E t \in Times : t > now /\ now' = t
    /\ UNCHANGED <<store, pc, event, loc, response, ops, lastPut, handed, seen, call>>

\* DynamoDB's TTL feature deletes an item whose ttl attribute has passed.
TTLDelete(k) ==
    /\ ~IsNone(store[k])
    /\ int_timestamp(now) >= Val(store[k]).ttl
    /\ store' = [store EXCEPT ![k] = None]
    /\ UNCHANGED <<now, pc, event, loc, response, ops, lastPut, handed, seen, call>>

\* lambda_handler is invoked with an event and validates it (lines 48-77).
Validate(p) ==
    /\ pc[p] = "idle"
    /\ \E ev \in Events :
        LET v == validate(ev)
        IN  /\ event' = [event EXCEPT ![p] = ev]
            /\ IF v.done
               THEN /\ Return(p, v.response)
                    /\ UNCHANGED seen
               ELSE /\ pc' = [pc EXCEPT ![p] = "check"]
                    /\ loc' = [loc EXCEPT ![p].url = v.url,
                                          ![p].cache_key = v.cache_key]
                    /\ seen' = [seen EXCEPT ![p].prior =
                            IF /\ ~IsNone(handed[v.cache_key])
                               /\ now - Val(handed[v.cache_key]).at < 24 * Hour
                            THEN Some(Val(handed[v.cache_key]).summary)
                            ELSE None]
                    /\ UNCHANGED response
    /\ UNCHANGED <<now, store, ops, lastPut, handed, call>>

\* The cache read (lines 80-83).
CheckCache(p) ==
    /\ pc[p] = "check"
    /\ \E fails \in BOOLEAN :
        LET key == loc[p].cache_key
            got == get_cached_summary(get_item(store, key, fails), now)
        IN  /\ ops' = [ops EXCEPT ![p] = @ \cup {"cache_get"}
                            \cup (IF fails THEN {"cache_get_failed"} ELSE {})]
            /\ seen' = [seen EXCEPT ![p].expect =
                    IF /\ ~fails
                       /\ ~IsNone(lastPut[key])
                       /\ now - Val(lastPut[key]).at < 24 * Hour
                    THEN Some(Val(lastPut[key]).data)
                    ELSE None]
            /\ IF got.raised THEN Return(p, internal_error)
               ELSE IF ~IsNone(got.value)
               THEN Return(p, success_response(Val(got.value), TRUE))
               ELSE /\ pc' = [pc EXCEPT ![p] = "extract"]
                    /\ UNCHANGED <<response, loc>>
    /\ UNCHANGED <<now, store, event, lastPut, handed, call>>

\* extract_article_content_and_title(url) for every page the URL can lead
\* to: the values of the function, worked out once.
ExtractOf == [page \in Pages |-> extract_article_content_and_title(page)]

\* The page fetch and content extraction (lines 89-91).
Extract(p) ==
    /\ pc[p] = "extract"
    /\ \E page \in Pages :
        LET got == ExtractOf[page]
        IN  IF IsNone(got.text) \/ IsEmptyStr(Val(got.text))
            THEN /\ ops' = [ops EXCEPT ![p] = @ \cup {"fetch", PageKind(page)}]
                 /\ Return(p, error_response("Failed to extract article content", 400))
            ELSE /\ ops' = [ops EXCEPT ![p] = @ \cup {"fetch", PageKind(page)}]
                 /\ loc' = [loc EXCEPT ![p].article_text = got.text,
                                       ![p].article_title = got.title]
                 /\ pc' = [pc EXCEPT ![p] = "summarize"]
                 /\ UNCHANGED response
    /\ UNCHANGED <<now, store, event, lastPut, handed, seen, call>>

\* The summarization and the result (lines 94-113).
\* summarize_text(article_text) for every text the extractor can hand over
\* and every answer of the service: the values of the function, worked out
\* once.
ExtractedTexts ==
    {Val(x.text) :
        x \in {y \in {ExtractOf[page] : page \in Pages} : ~IsNone(y.text)}}
SummaryOf ==
    [text \in ExtractedTexts, reply \in PipelineReplies |->
        summarize_text(text, reply)]

\* The word counts and the ratio of the result (lines 101-111) for each of
\* these texts and summaries, worked out once.
CountsOf ==
    [text \in ExtractedTexts, reply \in PipelineReplies |->
        make_result(<<>>, None, text, SummaryOf[text, reply], 0)]

Summarize(p) ==
    /\ pc[p] = "summarize"
    /\ \E reply \in PipelineReplies :
        LET summary == SummaryOf[Val(loc[p].article_text), reply]
        IN  /\ ops' = [ops EXCEPT ![p] = @ \cup {"summarize"}]
            /\ IF IsEmptyStr(summary)
               THEN Return(p, error_response("Failed to generate summary", 500))
               \* article_text, article_title and summary are not read again.
               ELSE /\ loc' = [loc EXCEPT
                            ![p].article_text = None,
                            ![p].article_title = None,
                            ![p].result = Some(
                                [CountsOf[Val(loc[p].article_text), reply] EXCEPT
                                    !.url = loc[p].url,
                                    !.title = Val(loc[p].article_title),
                                    !.summarized_at = isoformat(now)])]
                    /\ pc' = [pc EXCEPT ![p] = "persist"]
                    /\ UNCHANGED response
    /\ UNCHANGED <<now, store, event, lastPut, handed, seen, call>>

\* The cache write and the response (lines 116-119).
Persist(p) ==
    /\ pc[p] = "persist"
    /\ \E fails \in BOOLEAN, skew \in 0 .. MaxSkew :
        LET key == loc[p].cache_key
            result == Val(loc[p].result)
            put == cache_summary(store, key, result, now, now + skew, fails)
        IN  /\ now + skew \in Times
            /\ now' = now + skew
            /\ store' = put.table
            /\ ops' = [ops EXCEPT ![p] = @ \cup {"cache_put"}
                            \cup (IF fails THEN {"cache_put_failed"} ELSE {})]
            /\ lastPut' = IF fails THEN lastPut
                          ELSE [lastPut EXCEPT ![key] =
                                    Some([data |-> result, t1 |-> now, at |-> now'])]
            /\ handed' = [handed EXCEPT ![key] =
                              Some([summary |-> result.summary, at |-> now'])]
            /\ seen' = IF fails THEN seen
                       ELSE [q \in Procs |->
                                IF q # p /\ loc[q].cache_key = key
                                THEN [seen[q] EXCEPT !.prior = None]
                                ELSE seen[q]]
            /\ IF put.raised THEN Return(p, internal_error)
               ELSE Return(p, success_response(result, FALSE))
    /\ UNCHANGED <<event, call>>

Next ==
    \/ Tick
    \/ \E k \in CacheKeys : TTLDelete(k)
    \/ \E p \in Procs :
        \/ Validate(p)
        \/ CheckCache(p)
        \/ Extract(p)
        \/ Summarize(p)
        \/ Persist(p)

Spec == Init /\ [][Next]_vars

\* ------------------------------------------------- invocations run to an end

\* One step of an invocation that has started.
Step(p) == CheckCache(p) \/ Extract(p) \/ Summarize(p) \/ Persist(p)

\* The Lambda runtime runs the handler of every invocation it has started,
\* and each outbound call returns or times out (requests.get after 10 s,
\* requests.post after 30 s, the table calls by the client's own timeouts):
\* a step that stays possible is taken.
FairSpec == Spec /\ \A p \in Procs : WF_vars(Step(p))

\* ------------------------------------------- get_cached_summary, on its own

\* Clock readings and stored items around the 24 hour boundary.
GetTimes ==
    {0, 1, Hour, 23 * Hour, 24 * Hour - 1, 24 * Hour, 24 * Hour + 1, 25 * Hour}
GetData == make_result(URL_A, "News", TEXT_GOOD, RemoteSummary, 0)
GetItems(k) ==
    {Item(k, GetData, isoformat(t), int_timestamp(t + timedelta_days(TTL_DAYS))) :
        t \in {0, 1, Hour}}
    \cup {Item(k, GetData, BadIso, 0)}

InitGet ==
    /\ now \in GetTimes
    /\ store \in {f \in [CacheKeys -> {None} \cup {Some(i) : i \in UNION {GetItems(k) : k \in CacheKeys}}] :
                    \A k \in CacheKeys : IsNone(f[k]) \/ Val(f[k]).cache_key = k}
    /\ Idle
    /\ call = NoCall

\* One call get_cached_summary(key), the read failing or not.
GetCall ==
    /\ \E k \in CacheKeys, fails \in BOOLEAN :
        call' = [fn |-> "get_cached_summary", key |-> k, fails |-> fails,
                 result |-> get_cached_summary(get_item(store, k, fails), now)]
    /\ UNCHANGED <<now, store, pc, event, loc, response, ops, lastPut, handed, seen>>

NextGet == GetCall

SpecGet == InitGet /\ [][NextGet]_vars

\* ----------------------------------------------- summarize_text, on its own

\* Texts the extractor hands on: at least 50 words, at most 5000 characters.
TextOf(a, b) ==
    join(<<Sentence("s1", a), Sentence("s2", b), Sentence("s3", 50 - a - b)>>)
SumTexts ==
    {TEXT_GOOD, TEXT_BRIEF, Slice(TEXT_LONG, MAX_CHARS)}
    \cup {TextOf(a, b) : a \in {3, 6, 9, 12}, b \in {4, 8, 10}}

InitSum ==
    /\ now = 0
    /\ store = [k \in CacheKeys |-> None]
    /\ Idle
    /\ call = NoCall

\* One call summarize_text(text), the service answering with reply.
SumCall ==
    /\ \E text \in SumTexts, reply \in RemoteReplies :
        call' = [fn |-> "summarize_text", text |-> text, reply |-> reply,
                 result |-> summarize_text(text, reply)]
    /\ UNCHANGED <<now, store, pc, event, loc, response, ops, lastPut, handed, seen>>

NextSum == SumCall

SpecSum == InitSum /\ [][NextSum]_vars

\* ------------------------------------------------------ is_valid_url, on its own

\* URL texts put together from a scheme, a host, a port and a rest.
SchemeTexts ==
    [http  |-> Http,
     https |-> <<"h", "t", "t", "p", "s", ":", "/", "/">>,
     ftp   |-> <<"f", "t", "p", ":", "/", "/">>,
     none  |-> <<>>]
\* "a.co", "a1.co", "b-c.org", "localhost", "10.0.0.1": a domain name, a
\* domain name with a digit in a label, one with a hyphen, localhost and a
\* dotted-quad address.
HostTexts ==
    [plain     |-> <<"a", ".", "c", "o">>,
     digit     |-> <<"a", "1", ".", "c", "o">>,
     hyphen    |-> <<"b", "-", "c", ".", "o", "r", "g">>,
     localhost |-> <<"l", "o", "c", "a", "l", "h", "o", "s", "t">>,
     ip        |-> <<"1", "0", ".", "0", ".", "0", ".", "1">>]
\* no port, ":8080"
PortTexts == [none |-> <<>>, some |-> <<":", "8", "0", "8", "0">>]
\* nothing, "/", "/n?q=1", "?q=1"
RestTexts ==
    [none  |-> <<>>,
     slash |-> <<"/">>,
     path  |-> <<"/", "n", "?", "q", "=", "1">>,
     query |-> <<"?", "q", "=", "1">>]
UrlParts ==
    [scheme : DOMAIN SchemeTexts, host : DOMAIN HostTexts,
     port : DOMAIN PortTexts, rest : DOMAIN RestTexts]
UrlText(parts) ==
    SchemeTexts[parts.scheme] \o HostTexts[parts.host]
        \o PortTexts[parts.port] \o RestTexts[parts.rest]
EmptyUrl == [scheme |-> "none", host |-> "none", port |-> "none", rest |-> "none"]
UrlInputs ==
    [u \in UrlParts \cup {EmptyUrl} |-> IF u = EmptyUrl THEN <<>> ELSE UrlText(u)]

InitUrl ==
    /\ now = 0
    /\ store = [k \in CacheKeys |-> None]
    /\ Idle
    /\ call = NoCall

\* One call is_valid_url(url).
UrlCall ==
    /\ \E parts \in DOMAIN UrlInputs :
        call' = [fn |-> "is_valid_url", parts |-> parts, url |-> UrlInputs[parts],
                 result |-> is_valid_url(UrlInputs[parts])]
    /\ UNCHANGED <<now, store, pc, event, loc, response, ops, lastPut, handed, seen>>

NextUrl == UrlCall

SpecUrl == InitUrl /\ [][NextUrl]_vars

\* -------------------------------------- simple_extractive_summary, on its own

\* The sentences texts are made of: two of 6 and 8 words in one vocabulary,
\* two of 9 and 12 words in another, and one of 5 words, which the filter
\* drops.  A sentence kind used twice gives two identical sentences.
SentenceKinds ==
    {[id |-> "a", words |-> 6], [id |-> "a", words |-> 8],
     [id |-> "b", words |-> 9], [id |-> "b", words |-> 12],
     [id |-> "s", words |-> 5]}
SentenceLists == UNION {[1 .. n -> SentenceKinds] : n \in 0 .. MaxSentences}
TextFrom(kinds) ==
    join([i \in 1 .. Len(kinds) |-> Sentence(kinds[i].id, kinds[i].words)])
TargetCounts == {1, 2, 3}

InitFallback ==
    /\ now = 0
    /\ store = [k \in CacheKeys |-> None]
    /\ Idle
    /\ call = NoCall

\* One call simple_extractive_summary(text, num_sentences).
FallbackCall ==
    /\ call = NoCall
    /\ \E kinds \in SentenceLists, n \in TargetCounts :
        call' = [fn |-> "simple_extractive_summary", kinds |-> kinds,
                 num_sentences |-> n,
                 result |-> simple_extractive_summary(TextFrom(kinds), n)]
    /\ UNCHANGED <<now, store, pc, event, loc, response, ops, lastPut, handed, seen>>

NextFallback == FallbackCall

SpecFallback == InitFallback /\ [][NextFallback]_vars

\* ------------------------------------------------- the result, on its own

\* Word counts of an extracted text and of a summary: among them the pair
\* (100, 20), quotients that end in 5 at the third decimal (401/8, 201/200)
\* and an empty summary.
OriginalLengths == {50, 51, 60, 99, 100, 101, 401, 403, 603, 1407, 2500}
SummaryLengths == {0, 1, 3, 7, 8, 16, 20, 36, 49, 200}

InitResult ==
    /\ now = 0
    /\ store = [k \in CacheKeys |-> None]
    /\ Idle
    /\ call = NoCall

\* The result built for a text of original words and a summary of words
\* words (lines 100-113).
ResultCall ==
    /\ \E original \in OriginalLengths, words \in SummaryLengths :
        call' = [fn |-> "make_result", original |-> original, words |-> words,
                 result |-> make_result(URL_A, "News", Words("w", original, 1),
                                        Words("v", words, 1), now)]
    /\ UNCHANGED <<now, store, pc, event, loc, response, ops, lastPut, handed, seen>>

NextResult == ResultCall

SpecResult == InitResult /\ [][NextResult]_vars

\* ------------------------- extract_article_content_and_title, on its own

\* Documents: with or without a <title> and an <h1>; each content selector
\* matching no element, one element without text, one element of 30 words
\* or two elements of 30 words; no, one, two or three paragraphs of 25 words.
ElementWords == 30
ParagraphWords == 25
ElementIds ==
    [sel \in {content_selectors[i] : i \in 1 .. 5} |->
        CASE sel = "article" -> "e1" [] sel = ".article-body" -> "e2"
          [] sel = ".story-content" -> "e3" [] sel = "main" -> "e4"
          [] sel = "#content" -> "e5"]
Matches(sel, n) ==
    CASE n = 0 -> <<>>
      [] n = 1 -> <<<<>>>>
      [] n = 2 -> <<Words(ElementIds[sel], ElementWords, 4)>>
      [] n = 3 -> <<Words(ElementIds[sel], ElementWords, 4),
                    Words("more", ElementWords, 4)>>
Layouts == [{content_selectors[i] : i \in 1 .. 5} -> 0 .. 3]
Paragraphs(n) == [i \in 1 .. n |-> Words("p", ParagraphWords, 4)]
LaidOutPages ==
    {[Html(title, [sel \in DOMAIN layout |-> Matches(sel, layout[sel])],
           Paragraphs(n)) EXCEPT !.h1 = h1] :
        title \in {None, Some("News")}, h1 \in {None, Some("Headline")},
        layout \in Layouts, n \in 0 .. 3}
\* Documents with much text or with stray whitespace, and failed fetches.
OtherPages ==
    {Html(Some("Long"), [NoMatches EXCEPT !["main"] = <<TEXT_LONG>>], <<>>),
     Html(None, [NoMatches EXCEPT !["#content"] = <<TEXT_SPACED>>], <<>>),
     [Html(None, NoMatches, <<<<EmptyToken>>, TEXT_SHORT>>) EXCEPT !.h1 = Some("Headline")]}
    \cup Pages
ExtractPages == LaidOutPages \cup OtherPages

InitExtract ==
    /\ now = 0
    /\ store = [k \in CacheKeys |-> None]
    /\ Idle
    /\ call = NoCall

\* One call extract_article_content_and_title(url), the fetch giving page.
ExtractCall ==
    /\ call = NoCall
    /\ \E page \in ExtractPages :
        call' = [fn |-> "extract_article_content_and_title", page |-> page,
                 result |-> extract_article_content_and_title(page)]
    /\ UNCHANGED <<now, store, pc, event, loc, response, ops, lastPut, handed, seen>>

NextExtract == ExtractCall

SpecExtract == InitExtract /\ [][NextExtract]_vars

\* ------------------------------------------------------------------ claims

Done(p) == pc[p] = "done"
\* The decoded body of the response of an invocation that has returned.
Body(p) == Val(response[p]).body.json
Status(p) == Val(response[p]).statusCode
\* The invocation was given a URL the validator accepts.
Accepted(p) == ~validate(event[p]).done
IsSuccess(p) == Accepted(p) /\ Status(p) = 200 /\ Body(p).success
IsHit(p) == IsSuccess(p) /\ Body(p).from_cache
IsFresh(p) == IsSuccess(p) /\ ~Body(p).from_cache

\* C1 (as claimed): once an invocation has finished the cache-miss path for
\* a URL (its result handed to cache_summary), an invocation for the same URL
\* that starts less than 24 hours later, with no other write to the key in
\* between, returns success with from_cache = true and the same summary.
C1_LaterRequestIsServedFromCache ==
    \A p \in Procs :
        Done(p) /\ ~IsNone(seen[p].prior)
            => IsHit(p) /\ Body(p).data.summary = Val(seen[p].prior)

\* C1 (amended): once a cache write for the URL's key has succeeded, an
\* invocation for the same URL whose cache read does not fail and happens
\* less than 24 hours after that write's cached_at, with no other write to
\* the key in between, returns success with from_cache = true and exactly
\* the data written.
C1_FreshEntryIsServed ==
    \A p \in Procs :
        Done(p) /\ ~IsNone(seen[p].expect)
            => IsHit(p) /\ Body(p).data = Val(seen[p].expect)

\* C1 witness: an invocation was served the data an earlier one wrote.
C1_Witness ==
    \E p \in Procs, q \in Procs :
        /\ p # q /\ Done(p) /\ Done(q)
        /\ ~IsNone(seen[p].expect) /\ IsHit(p)
        /\ IsFresh(q) /\ "cache_put_failed" \notin ops[q]
        /\ Body(p).data = Body(q).data

\* C2 (as claimed): get_cached_summary returns the stored summary_data
\* exactly when an entry for the key exists and now - cached_at < 24 hours,
\* and None otherwise.
C2_ReturnedExactlyWhenFresh ==
    call.fn = "get_cached_summary" =>
        LET e == store[call.key]
        IN  IF /\ ~IsNone(e)
               /\ Val(e).cached_at # BadIso
               /\ now - fromisoformat(Val(e).cached_at) < 24 * Hour
            THEN call.result = [raised |-> FALSE, value |-> Some(Val(e).summary_data)]
            ELSE call.result = [raised |-> FALSE, value |-> None]

\* C2 (amended): when the read of the store does not fail,
\* get_cached_summary returns the stored summary_data exactly when a
\* readable entry for the key exists and now - cached_at < 24 hours
\* (strictly); it returns None when there is no entry, when the entry is 24
\* hours old or older, and when the read fails.
C2_ReturnedWhenFreshAndRead ==
    call.fn = "get_cached_summary" =>
        LET e == store[call.key]
        IN  IF /\ ~call.fails
               /\ ~IsNone(e)
               /\ Val(e).cached_at # BadIso
               /\ now - fromisoformat(Val(e).cached_at) < 24 * Hour
            THEN call.result = [raised |-> FALSE, value |-> Some(Val(e).summary_data)]
            ELSE call.result = [raised |-> FALSE, value |-> None]

\* C2 witness: an entry aged exactly 23 hours is read and returned.
C2_Witness ==
    /\ call.fn = "get_cached_summary"
    /\ ~call.fails
    /\ ~IsNone(store[call.key])
    /\ Val(store[call.key]).cached_at # BadIso
    /\ now - fromisoformat(Val(store[call.key]).cached_at) = 23 * Hour
    /\ call.result.value = Some(Val(store[call.key]).summary_data)

\* The response of an invocation that went past the cache read without a
\* hit: decided by extraction and summarization alone.
MissResponse(p) ==
    IF "cache_put" \in ops[p]
    THEN IsFresh(p) /\ Body(p).data.url = event[p].url.s
    ELSE IF "summarize" \in ops[p]
    THEN response[p] = Some(error_response("Failed to generate summary", 500))
    ELSE response[p] = Some(error_response("Failed to extract article content", 400))

\* C3: no failure of the cache fails a request.  A failed cache read sends
\* the invocation on to extraction and its response is the one of a miss; a
\* failed cache write still ends in the success response (200, from_cache =
\* false).
C3_CacheFailuresAreAbsorbed ==
    \A p \in Procs :
        /\ "cache_get_failed" \in ops[p] =>
              /\ pc[p] \in {"extract", "summarize", "persist", "done"}
              /\ Done(p) => "fetch" \in ops[p] /\ MissResponse(p)
        /\ "cache_put_failed" \in ops[p] => Done(p) /\ IsFresh(p)
        /\ Done(p) /\ "cache_get" \in ops[p] /\ ~IsHit(p) => MissResponse(p)

\* C3 witness: an invocation whose cache read and cache write both failed
\* has returned its success response.
C3_Witness ==
    \E p \in Procs :
        /\ Done(p)
        /\ {"cache_get_failed", "cache_put_failed"} \subseteq ops[p]
        /\ IsFresh(p)

\* C4 (as claimed): summarization never fails: an invocation that reached
\* the summarizer ends with a success response carrying a non-empty
\* summary, never with "Failed to generate summary".
C4_SummarizationNeverFails ==
    \A p \in Procs :
        Done(p) /\ "summarize" \in ops[p]
            => IsSuccess(p) /\ ~IsEmptyStr(Body(p).data.summary)

\* Extraction failed: the fetch met an error or too little text.
ExtractionFailed(p) ==
    \/ ops[p] \cap {"fetch:network_error", "fetch:http_error", "fetch:too_short"} # {}
    \/ Done(p) /\ "fetch" \in ops[p] /\ "summarize" \notin ops[p]

BadUrlValue(j) == ~Truthy(j) \/ j.t # "str" \/ ~is_valid_url(j.s)

\* C6 (as claimed): a request whose body carries a missing, empty or
\* malformed url value ends with status 400 and success = false, before any
\* cache read, fetch, summarization or cache write.
C6_BadUrlIsRejectedWith400 ==
    \A p \in Procs :
        /\ Done(p)
        /\ event[p].httpMethod # "OPTIONS"
        /\ event[p].json = "object"
        /\ BadUrlValue(event[p].url)
        => /\ Status(p) = 400
           /\ ~Body(p).success
           /\ ops[p] = {}

\* The service answered 200 with a non-empty summary field, in a list of
\* objects or in a single object.
RemoteSucceeded(reply) ==
    /\ reply.kind = "http"
    /\ reply.status = 200
    /\ reply.json \in {"list", "dict"}
    /\ Len(reply.items) > 0
    /\ reply.items[1].isdict
    /\ ~IsNone(reply.items[1].summary_text)
    /\ ~IsEmptyStr(Val(reply.items[1].summary_text))

\* C7 (as claimed): summarize_text returns the remote summary exactly when
\* the service answers 200 with a non-empty summary field, as a list or as
\* a single object, and the fallback's output on the same text otherwise.
C7_RemoteSummaryOrFallback ==
    call.fn = "summarize_text" =>
        IF RemoteSucceeded(call.reply)
        THEN call.result = Val(call.reply.items[1].summary_text)
        ELSE call.result = simple_extractive_summary(call.text, 3)

\* C8: concurrent invocations each return their own response, and the cache
\* is last-writer-wins: the entry under a key is absent or is, in every
\* field, the item of the put that executed last (absent after a put only
\* once the item's ttl has passed).
C8_LastWriterWins ==
    /\ \A k \in CacheKeys :
        IF IsNone(store[k])
        THEN IsNone(lastPut[k])
                \/ now >= ((Val(lastPut[k]).t1 + 7 * Day) \div TicksPerSecond)
                            * TicksPerSecond
        ELSE /\ ~IsNone(lastPut[k])
             /\ Val(store[k]).cache_key = k
             /\ Val(store[k]).summary_data = Val(lastPut[k]).data
             /\ fromisoformat(Val(store[k]).cached_at) = Val(lastPut[k]).at
             /\ Val(store[k]).ttl = (Val(lastPut[k]).t1 + 7 * Day) \div TicksPerSecond
    /\ \A p \in Procs :
        Done(p) /\ IsSuccess(p) => Body(p).data.url = event[p].url.s

\* C8 witness: two invocations for one URL raced past the cache read (both
\* summarized within the first hour, neither read failing), both wrote, and
\* the entry is the later writer's.
C8_Witness ==
    \E p \in Procs, q \in Procs :
        /\ p # q /\ Done(p) /\ Done(q)
        /\ event[p].url = event[q].url
        /\ IsFresh(p) /\ IsFresh(q)
        /\ (ops[p] \cup ops[q]) \cap {"cache_get_failed", "cache_put_failed"} = {}
        /\ fromisoformat(Body(p).data.summarized_at) < Hour
        /\ fromisoformat(Body(q).data.summarized_at) < Hour
        /\ Body(p).data # Body(q).data
        /\ Val(store[generate_cache_key(event[p].url.s)]).summary_data = Body(q).data

\* A step in which invocation p's cache_summary call succeeds.
PutBy(p) ==
    pc[p] = "persist" /\ pc'[p] = "done" /\ "cache_put_failed" \notin ops'[p]

\* What every successful cache_summary(key, result) does besides the expiry:
\* the entry under key holds result and the time of the write, any previous
\* entry is replaced, the other keys are unchanged.
PutEffect(p) ==
    LET k == loc[p].cache_key
    IN  /\ ~IsNone(store'[k])
        /\ Val(store'[k]).cache_key = k
        /\ Val(store'[k]).summary_data = Val(loc[p].result)
        /\ fromisoformat(Val(store'[k]).cached_at) = now'
        /\ \A j \in CacheKeys \ {k} : store'[j] = store[j]

\* C9 (as claimed): after a successful cache_summary the entry's expiresAt
\* equals its cachedAt plus exactly 7 days.
C9_ExpiryIsCachedAtPlus7Days ==
    [][\A p \in Procs :
        PutBy(p) =>
            /\ PutEffect(p)
            /\ Val(store'[loc[p].cache_key]).ttl * TicksPerSecond
                = fromisoformat(Val(store'[loc[p].cache_key]).cached_at) + 7 * Day
      ]_vars

\* C9 (amended): after a successful cache_summary the entry's ttl is the
\* clock reading taken before the write plus 7 days, cut to whole seconds,
\* so it is at most cached_at plus 7 days and not always equal to it.
C9_ExpiryIsEarlierReadingPlus7Days ==
    [][\A p \in Procs :
        PutBy(p) =>
            /\ PutEffect(p)
            /\ Val(store'[loc[p].cache_key]).ttl = (now + 7 * Day) \div TicksPerSecond
            /\ Val(store'[loc[p].cache_key]).ttl * TicksPerSecond
                <= fromisoformat(Val(store'[loc[p].cache_key]).cached_at) + 7 * Day
      ]_vars

\* C9 witness: an entry that replaced an earlier one and whose ttl is not
\* its cached_at plus 7 days.
C9_Witness ==
    \E p \in Procs, q \in Procs :
        /\ p # q /\ Done(p) /\ Done(q)
        /\ event[p].url = event[q].url
        /\ IsFresh(p) /\ IsFresh(q)
        /\ (ops[p] \cup ops[q]) \cap {"cache_put_failed"} = {}
        /\ LET e == store[generate_cache_key(event[p].url.s)]
           IN  /\ ~IsNone(e)
               /\ Val(e).ttl * TicksPerSecond # fromisoformat(Val(e).cached_at) + 7 * Day

\* C10: get_cached_summary never returns an entry past its hard expiry: in
\* every reachable state, an entry it returns has now - cached_at < 24 hours
\* and now < ttl; an entry whose ttl has passed is treated as absent even
\* while it is still in the table.
C10_NeverServedPastExpiry ==
    \A k \in CacheKeys :
        LET got == get_cached_summary(get_item(store, k, FALSE), now)
        IN  ~IsNone(got.value) =>
                /\ now - fromisoformat(Val(store[k]).cached_at) < 24 * Hour
                /\ now < Val(store[k]).ttl * TicksPerSecond

\* C10 witness: an entry whose ttl has passed is still in the table and is
\* not returned.
C10_Witness ==
    \E k \in CacheKeys :
        /\ ~IsNone(store[k])
        /\ now >= Val(store[k]).ttl * TicksPerSecond
        /\ IsNone(get_cached_summary(get_item(store, k, FALSE), now).value)

\* C11 (as claimed): is_valid_url returns true for every well-formed
\* absolute HTTP or HTTPS URL (host a domain name, localhost or a dotted-quad
\* address, optional port, optional path or query) and false for the empty
\* string, for a string with no scheme and for one with another scheme.
C11_ValidatorAcceptsWellFormedUrls ==
    call.fn = "is_valid_url" =>
        IF call.parts # EmptyUrl /\ call.parts.scheme \in {"http", "https"}
        THEN call.result
        ELSE ~call.result

\* C12: in every result built on the miss path, word_count is the number of
\* words of the summary, original_length the number of words of the
\* extracted text, and compression_ratio is original_length / word_count
\* rounded to two decimals (within half a hundredth of the quotient; 5.0 for
\* 100 and 20) when word_count > 0 and 0 when word_count = 0, without a
\* division by zero.
C12_CompressionRatioIsRoundedQuotient ==
    call.fn = "make_result" =>
        LET r == call.result
            off == r.compression_ratio * call.words - 100 * call.original
        IN  /\ r.word_count = call.words
            /\ r.original_length = call.original
            /\ IF call.words > 0
               THEN 2 * off <= call.words /\ 0 - 2 * off <= call.words
               ELSE r.compression_ratio = 0
            /\ (call.original = 100 /\ call.words = 20) => r.compression_ratio = 500

\* C12 witness: the result for 100 words summarized in 20 has the ratio 5.0.
C12_Witness ==
    /\ call.fn = "make_result"
    /\ call.original = 100
    /\ call.words = 20
    /\ call.result.compression_ratio = 500
    /\ call.result.word_count = 20

\* The sentences of a list that pass the noise filter, in their order.
Eligible(kinds) == SelectSeq(kinds, LAMBDA s : s.words > 5)

\* Sentence i of n eligible ones is ahead of sentence j when its score
\* words * (1 - i/n) is greater, or equal with i the earlier index (indices
\* from 0; the scores compared exactly, over the common denominator n).
Ahead(el, i, j) ==
    LET si == el[i + 1].words * (Len(el) - i)
        sj == el[j + 1].words * (Len(el) - j)
    IN  si > sj \/ (si = sj /\ i < j)

\* The indices of the num best sentences, and their sentences in document
\* order.
TopIndices(el, num) ==
    {i \in 0 .. (Len(el) - 1) :
        Cardinality({j \in 0 .. (Len(el) - 1) : Ahead(el, j, i)}) < num}
RECURSIVE InDocumentOrder(_, _, _)
InDocumentOrder(el, chosen, i) ==
    IF i >= Len(el) THEN <<>>
    ELSE (IF i \in chosen
          THEN <<Sentence(el[i + 1].id, el[i + 1].words)>> ELSE <<>>)
            \o InDocumentOrder(el, chosen, i + 1)

\* C13 (as claimed): for a text with more eligible sentences than the
\* target count N, simple_extractive_summary returns the N sentences with
\* the highest score words * (1 - i/n), ties going to the earlier sentence,
\* joined in original document order, also when sentences repeat.
C13_TopSentencesInDocumentOrder ==
    call.fn = "simple_extractive_summary" =>
        LET el == Eligible(call.kinds)
        IN  Len(el) > call.num_sentences =>
                call.result =
                    join(InDocumentOrder(el, TopIndices(el, call.num_sentences), 0))

\* C14: for a text with no more eligible sentences than the target count,
\* simple_extractive_summary returns all eligible sentences, each once, in
\* their original order, and none of the sentences the filter drops.
C14_FewSentencesAllReturned ==
    call.fn = "simple_extractive_summary" =>
        LET el == Eligible(call.kinds)
        IN  Len(el) <= call.num_sentences =>
                call.result =
                    join([i \in 1 .. Len(el) |-> Sentence(el[i].id, el[i].words)])

\* C14 witness: a text of five sentences, two of them too short, is
\* summarized to its three eligible sentences.
C14_Witness ==
    /\ call.fn = "simple_extractive_summary"
    /\ Len(call.kinds) = 5
    /\ Len(Eligible(call.kinds)) = 3
    /\ call.num_sentences = 3
    /\ call.kinds[2].words = 5
    /\ word_count(call.result) = word_count(TextFrom(call.kinds)) - 10

\* The call was an extraction from a document that was fetched (no transport
\* error, no 4xx or 5xx status).
Fetched ==
    /\ call.fn = "extract_article_content_and_title"
    /\ call.page.kind = "http"
    /\ call.page.status < 400

\* C15 (as claimed): for a successfully extracted page the title is the
\* <title> text if there is a <title>, else the text of the first <h1> if
\* there is one, else "Article".
C15_TitleThenHeadingThenPlaceholder ==
    (Fetched /\ ~IsNone(call.result.text)) =>
        call.result.title =
            Some(IF ~IsNone(call.page.title) THEN Val(call.page.title)
                 ELSE IF ~IsNone(call.page.h1) THEN Val(call.page.h1)
                 ELSE "Article")

\* The position in content_selectors of the first selector that matches an
\* element of the page, 0 if none does, and the texts the claim says are
\* used: those of its elements, or of the paragraphs.
FirstMatching(page) ==
    LET matching == {i \in 1 .. Len(content_selectors) :
                        page.selected[content_selectors[i]] # <<>>}
    IN  IF matching = {} THEN 0
        ELSE CHOOSE i \in matching : \A j \in matching : i <= j
ChosenParts(page) ==
    IF FirstMatching(page) = 0 THEN page.p
    ELSE page.selected[content_selectors[FirstMatching(page)]]

\* C17: the extracted text is the space-joined text of the elements of the
\* first selector, in the order article, .article-body, .story-content,
\* main, #content, that matches any element; no later selector contributes
\* (if that text is too short the extraction fails); the paragraphs are used
\* only if no selector matches.
C17_FirstMatchingSelectorOnly ==
    Fetched =>
        LET text == strip(join(ChosenParts(call.page)))
        IN  IF IsNone(call.result.text)
            THEN word_count(text) < 50
            ELSE Val(call.result.text) = Slice(text, 5000)

\* C17 witness: a page whose first matching selector is the third, matching
\* two elements, with a later selector and paragraphs matching too, gives
\* the 60 words of those two elements.
C17_Witness ==
    /\ Fetched
    /\ FirstMatching(call.page) = 3
    /\ Len(call.page.selected[".story-content"]) = 2
    /\ call.page.selected["main"] # <<>>
    /\ Len(call.page.p) = 3
    /\ call.result.text = Some(Concat(Words("e3", 30, 4), Words("more", 30, 4)))

\* C18: for a fetched page the extractor fails exactly when the collapsed,
\* trimmed text has fewer than 50 words; otherwise it returns the first 5000
\* characters of that text: the whole text if it has no more, and exactly
\* 5000 characters of a longer one, whose words were counted before the cut.
C18_MinimumWordsThenTruncation ==
    Fetched =>
        LET text == strip(join(ChosenParts(call.page)))
        IN  /\ IsNone(call.result.text) <=> PartsWords(ChosenParts(call.page)) < 50
            /\ ~IsNone(call.result.text) =>
                /\ CharLen(Val(call.result.text)) <= 5000
                /\ CharLen(text) <= 5000 => Val(call.result.text) = text
                /\ CharLen(text) > 5000 =>
                    /\ CharLen(Val(call.result.text)) = 5000
                    /\ Val(call.result.text) = Slice(text, 5000)

\* C18 witness: a text of 50 long words is accepted and cut to 5000
\* characters, which hold fewer than 50 words.
C18_Witness ==
    /\ Fetched
    /\ PartsWords(ChosenParts(call.page)) = 50
    /\ ~IsNone(call.result.text)
    /\ CharLen(Val(call.result.text)) = 5000
    /\ word_count(Val(call.result.text)) < 50


\* C16: on a cache hit the invocation goes from the cache read straight to
\* its response: the step leaves the whole cache table as it was (the hit
\* item's cached_at and ttl included), the invocation has done nothing but
\* the cache read (no page fetch, no summarization call, no cache write), and
\* the response is success with from_cache = true and exactly the
\* summary_data stored under the key.
C16_HitReturnsStoredDataAndChangesNothing ==
    [][\A p \in Procs :
        (/\ pc[p] = "check"
         /\ pc'[p] = "done"
         /\ Val(response'[p]).body.json.from_cache)
        => /\ store' = store
           /\ ops'[p] = {"cache_get"}
           /\ ~IsNone(store[loc[p].cache_key])
           /\ response'[p] =
                Some(success_response(
                        Val(store[loc[p].cache_key]).summary_data, TRUE))]_vars
\* An invocation has returned a hit and the item it read is still in the
\* table.
C16_Witness ==
    \E p \in Procs :
        /\ Done(p)
        /\ IsHit(p)
        /\ ops[p] = {"cache_get"}
        /\ \E k \in CacheKeys :
            /\ ~IsNone(store[k])
            /\ Val(store[k]).summary_data = Body(p).data
            /\ Val(store[k]).cache_key = generate_cache_key(Body(p).data.url)

\* Where an invocation is, in the order of lambda_handler's statements.
Rank(at) ==
    CASE at = "idle" -> 0
      [] at = "check" -> 1
      [] at = "extract" -> 2
      [] at = "summarize" -> 3
      [] at = "persist" -> 4
      [] at = "done" -> 5
Started(p) == pc[p] \in {"check", "extract", "summarize", "persist"}
IsDoneResponse(r) ==
    /\ "success" \in DOMAIN r.body.json
    /\ r.statusCode = 200
    /\ r.body.json.success
    /\ r = success_response(r.body.json.data, r.body.json.from_cache)
IsFailedResponse(r) ==
    /\ "success" \in DOMAIN r.body.json
    /\ ~r.body.json.success
    /\ r.body.json.error # ""
    /\ r = error_response(r.body.json.error, r.statusCode)
\* The event makes a statement of lambda_handler raise: json.loads on a
\* malformed body, .get on a body that is no object, re.match on a url that
\* is no string.
Raises(ev) ==
    /\ ev.httpMethod # "OPTIONS"
    /\ \/ ev.httpMethod = "POST" /\ ev.json # "object"
       \/ Truthy(ev.url) /\ ev.url.t # "str"
\* Each step of an invocation moves it forward, works only while it moves,
\* and leaves a response once given as it is: no stage runs twice.
NothingRetried ==
    \A p \in Procs :
        /\ pc'[p] # pc[p] => Rank(pc'[p]) > Rank(pc[p])
        /\ ops'[p] # ops[p] => pc'[p] # pc[p]
        /\ ~IsNone(response[p]) => response'[p] = response[p]
        /\ ~IsNone(response'[p]) <=> pc'[p] = "done"

\* C19 (as claimed): every invocation ends with exactly one response, which
\* is either Done (status 200, success = true, data, from_cache) or Failed
\* (success = false with an error message); an exception raised in the
\* handler gives a Failed response with status 500; nothing is retried.
C19_EndsWithDoneOrFailed ==
    /\ [](\A p \in Procs :
            Done(p) =>
                /\ \/ IsDoneResponse(Val(response[p]))
                   \/ IsFailedResponse(Val(response[p]))
                /\ Raises(event[p]) =>
                        /\ IsFailedResponse(Val(response[p]))
                        /\ Status(p) = 500)
    /\ [][NothingRetried]_vars
    /\ \A p \in Procs : Started(p) ~> Done(p)
\* C19 (amended): as claimed, with a third kind of response: an OPTIONS
\* request is answered with the CORS preflight response (status 200, a
\* message, no success field), which is neither Done nor Failed.
C19_EndsWithDoneFailedOrPreflight ==
    /\ [](\A p \in Procs :
            Done(p) =>
                /\ IF event[p].httpMethod = "OPTIONS"
                   THEN response[p] = Some(preflight_response)
                   ELSE \/ IsDoneResponse(Val(response[p]))
                        \/ IsFailedResponse(Val(response[p]))
                /\ Raises(event[p]) =>
                        /\ IsFailedResponse(Val(response[p]))
                        /\ Status(p) = 500)
    /\ [][NothingRetried]_vars
    /\ \A p \in Procs : Started(p) ~> Done(p)
\* One invocation has ended in the catch-all and another has ended after
\* going through every stage.
C19_Witness ==
    \E p, q \in Procs :
        /\ Done(p)
        /\ Raises(event[p])
        /\ Status(p) = 500
        /\ Done(q)
        /\ {"cache_get", "fetch", "summarize", "cache_put"} \subseteq ops[q]

\* The step adds an item to the table or changes the item under a key.
Writes(k) == store'[k] # store[k] /\ ~IsNone(store'[k])
\* What holds of every item whatever its original_length: it is the item
\* the last cache_summary call for its key wrote, its key is the cache key
\* of its url, is_valid_url accepts that url and its summary is not empty.
WellFormedEntry(k) ==
    LET item == Val(store[k])
        data == item.summary_data
    IN  /\ ~IsNone(lastPut[k])
        /\ data = Val(lastPut[k]).data
        /\ item.cache_key = k
        /\ k = generate_cache_key(data.url)
        /\ is_valid_url(data.url)
        /\ ~IsEmptyStr(data.summary)
\* Only the cache write of an invocation that then returns its fresh result
\* adds or changes an item; an invocation that has ended with an error or
\* with a hit has made no cache write.
OnlyPersistWrites ==
    /\ [][\A k \in CacheKeys :
            Writes(k) =>
                \E p \in Procs :
                    /\ pc[p] = "persist"
                    /\ pc'[p] = "done"
                    /\ loc[p].cache_key = k
                    /\ {"cache_get", "fetch", "fetch:ok", "summarize"} \subseteq ops[p]
                    /\ response'[p] =
                        Some(success_response(Val(store'[k]).summary_data, FALSE))]_vars
    /\ [](\A p \in Procs :
            Done(p) /\ ~IsFresh(p) => "cache_put" \notin ops[p])

\* C20 (as claimed): every item of the table was written by the cache write
\* of an invocation that passed validation, extraction and summarization:
\* its key is generate_cache_key of its url, is_valid_url accepts the url,
\* its summary is not empty and its original_length is at least 50; no
\* invocation that ends in an error or a hit adds or changes an item.
C20_StoreInvariant ==
    /\ [](\A k \in CacheKeys :
            ~IsNone(store[k]) =>
                /\ WellFormedEntry(k)
                /\ Val(store[k]).summary_data.original_length >= MIN_WORDS)
    /\ OnlyPersistWrites
\* C20 (amended): as claimed, but original_length is the word count of the
\* extracted text after its cut to 5000 characters: at least 1, and below 50
\* for a text whose first 5000 characters hold fewer than 50 words.
C20_StoreInvariantCutLength ==
    /\ [](\A k \in CacheKeys :
            ~IsNone(store[k]) =>
                /\ WellFormedEntry(k)
                /\ Val(store[k]).summary_data.original_length >= 1
                /\ \E page \in Pages :
                    /\ ~IsNone(ExtractOf[page].text)
                    /\ Val(store[k]).summary_data.original_length
                         = word_count(Val(ExtractOf[page].text)))
    /\ OnlyPersistWrites
\* The table holds an item for a text that was cut, while another
\* invocation for the same url has ended with an error.
C20_Witness ==
    \E k \in CacheKeys :
        /\ ~IsNone(store[k])
        /\ Val(store[k]).summary_data.original_length < MIN_WORDS
        /\ \E p \in Procs :
            /\ Done(p)
            /\ Accepted(p)
            /\ generate_cache_key(event[p].url.s) = k
            /\ "fetch" \in ops[p]
            /\ ~Body(p).success
=============================================================================
